---- MODULE Spec2Model ----
(***************************************************************************)
(* Model of mosdef_slitpore/analysis.py: the four slit-pore profile        *)
(* routines compute_density, compute_s, compute_angle and                  *)
(* compute_mol_per_area.                                                   *)
(*                                                                         *)
(* Numbers.  Coordinates, pore_center, max_distance, bin_width and area    *)
(* are integer-valued floats; on such inputs every sum, difference and     *)
(* product the code forms, and every half bin width 0.5*bin_width, is      *)
(* exact in binary floating point.  A quotient is kept as the exact        *)
(* fraction [n, d]; a zero denominator is what numpy returns for a         *)
(* division by zero: 0/0 is NaN, n/0 with n # 0 is an infinity.            *)
(*                                                                         *)
(* Control.  Every routine is single threaded; "pc" is the position in     *)
(* the running routine and "raised" is the outcome of a Python exception   *)
(* leaving the routine.                                                    *)
(***************************************************************************)
EXTENDS Integers, Sequences, FiniteSets, TLC

VARIABLES
    routine,            \* the routine being executed
    pc,                 \* "start", "loop", "frames", "returned", "raised"
    xyz,                \* traj.xyz[frame][atom][dim]
    names,              \* traj.top: the atom names, in atom order
    unitcell,           \* traj.unitcell_lengths (one cubic box edge, 0 = none)
    area,
    surface_normal_dim, \* 1..3 stands for the source's 0..2
    pore_center,
    max_distance,
    bin_width,
    symmetrize,
    distances,          \* distances[frame][particle]
    cos_angles,         \* cos_angles[frame][molecule], fractions
    arange,             \* the array np.arange(...) the bin loop iterates
    k,                  \* number of loop iterations completed
    masks,              \* the mask of every iteration: sets of <<frame, particle>>
    bin_centers,
    density,
    s_values,
    cos_angle_values,
    dim,                \* compute_mol_per_area: the axis, 1..3 for 0..2
    box_range,
    n_bins,
    shift,
    frame_range,        \* [none, frames]: None, or the frames of a range()
    water_o,            \* water_o.xyz: the selected oxygens, per frame
    i,                  \* number of frames the frame loop has consumed
    areas,              \* <<>> while the name is unbound
    bins,               \* the histogram's bin edges, <<>> while unbound
    new_bins,
    prev,               \* what the previous call on this trajectory returned
    ret                 \* the returned tuple

vars == <<routine, pc, xyz, names, unitcell, area, surface_normal_dim,
          pore_center, max_distance, bin_width, symmetrize, distances,
          cos_angles, arange, k, masks, bin_centers, density, s_values,
          cos_angle_values, dim, box_range, n_bins, shift, frame_range,
          water_o, i, areas, bins, new_bins, prev, ret>>

(***************************************************************************)
(* Bounds of the model.                                                    *)
(***************************************************************************)
MaxSamples == 2     \* n_frames * n_particles <= MaxSamples
MaxCoord == 2       \* coordinates along the normal lie in -MaxCoord..MaxCoord

Coords == (0 - MaxCoord)..MaxCoord
Areas == {0 - 1, 0, 2}
PoreCenters == {0, 1}
MaxDistances == {0 - 1, 1, 2}
BinWidths == {0 - 1, 0, 1, 2, 3}

(***************************************************************************)
(* Arithmetic.                                                             *)
(***************************************************************************)
Abs(x) == IF x < 0 THEN 0 - x ELSE x

Sign(x) == IF x > 0 THEN 1 ELSE IF x < 0 THEN 0 - 1 ELSE 0

\* ceil(a / b) for b > 0
CeilDiv(a, b) == 0 - ((0 - a) \div b)

\* the fraction n/d; d = 0 is NaN (n = 0) or an infinity (n # 0)
Frac(n, d) == [n |-> n, d |-> d]

IsNaN(r) == r.d = 0 /\ r.n = 0

IsInf(r) == r.d = 0 /\ r.n # 0

IsFinite(r) == r.d # 0

\* equality of two finite fractions
FracEq(a, b) == IsFinite(a) /\ IsFinite(b) /\ a.n * b.d = b.n * a.d

\* a <= b for finite fractions (denominators of either sign)
FracLeq(a, b) ==
    /\ IsFinite(a) /\ IsFinite(b)
    /\ a.n * b.d * Sign(a.d) * Sign(b.d) <= b.n * a.d * Sign(a.d) * Sign(b.d)

RECURSIVE GCD(_, _)
GCD(a, b) == IF b = 0 THEN a ELSE GCD(b, a % b)

\* the same value in lowest terms with a positive denominator; NaN and the
\* infinities stay what they are
Reduce(n, d) ==
    IF d = 0 THEN Frac(Sign(n), 0)
    ELSE LET g == GCD(Abs(n), Abs(d))
         IN  Frac(Sign(n) * Sign(d) * (Abs(n) \div g), Abs(d) \div g)

FracAdd(a, b) == Reduce(a.n * b.d + b.n * a.d, a.d * b.d)

FracMul(a, b) == Reduce(a.n * b.n, a.d * b.d)

FracNeg(a) == Frac(0 - a.n, a.d)

\* np.isclose(a, b): abs(a - b) <= atol + rtol * abs(b), atol = 1e-8 and
\* rtol = 1e-5, both sides scaled by 1e8
isclose(a, b) == 100000000 * Abs(a - b) <= 1 + 1000 * Abs(b)

(***************************************************************************)
(* The binning loop shared by compute_density, compute_s, compute_angle.   *)
(***************************************************************************)
\* a length that takes the stop value in when the step divides the span
ArangeLenClosed(start, stop, step) ==
    IF step > 0 /\ stop >= start THEN (stop - start) \div step + 1 ELSE 0

\* len(np.arange(start, stop, step)) = max(0, ceil((stop - start) / step));
\* step = 0 makes np.arange raise
ArangeLen(start, stop, step) ==
    LET q == IF step > 0 THEN CeilDiv(stop - start, step)
                         ELSE CeilDiv(start - stop, 0 - step)
    IN  IF q > 0 THEN q ELSE 0

np_arange(start, stop, step) ==
    [j \in 1..ArangeLen(start, stop, step) |-> start + (j - 1) * step]

\* a closed lower end
AboveLowClosed(d, bin_center, w) == 2 * d >= 2 * bin_center - w

\* distances > bin_center - 0.5 * bin_width, compared after doubling
AboveLow(d, bin_center, w) == 2 * d > 2 * bin_center - w

\* a closed upper end
BelowHighClosed(d, bin_center, w) == 2 * d <= 2 * bin_center + w

\* distances < bin_center + 0.5 * bin_width, compared after doubling
BelowHigh(d, bin_center, w) == 2 * d < 2 * bin_center + w

\* np.logical_and(distances > ..., distances < ...): the selected samples
Mask(dist, bin_center, w) ==
    {fp \in {<<f, p>> : f \in DOMAIN dist, p \in 1..MaxSamples} :
        /\ fp[2] \in DOMAIN dist[fp[1]]
        /\ AboveLow(dist[fp[1]][fp[2]], bin_center, w)
        /\ BelowHigh(dist[fp[1]][fp[2]], bin_center, w)}

\* the signed distances whatever symmetrize says
DistancesSigned(coords, axis, center, sym) ==
    [f \in DOMAIN coords |->
        [p \in DOMAIN coords[f] |-> coords[f][p][axis] - center]]

\* traj.xyz[:, :, surface_normal_dim] - pore_center, or its absolute value
Distances(coords, axis, center, sym) ==
    [f \in DOMAIN coords |->
        [p \in DOMAIN coords[f] |->
            IF sym THEN Abs(coords[f][p][axis] - center)
                   ELSE coords[f][p][axis] - center]]

n_frames == Len(xyz)

(***************************************************************************)
(* compute_density                                                         *)
(***************************************************************************)
\* the factor 2 for every bin of a symmetrized profile
SymFactorTwo(bin_center, sym) == IF sym THEN 2 ELSE 1

\* the factor of the divisor: 1 for the bin np.isclose finds at 0, else 2
SymFactor(bin_center, sym) ==
    IF sym THEN (IF isclose(bin_center, 0) THEN 1 ELSE 2) ELSE 1

\* mask.sum() / (area * factor * bin_width * traj.n_frames)
BinDensity(count, a, bin_center, w, sym, nf) ==
    Frac(count, a * SymFactor(bin_center, sym) * w * nf)

MolVars == <<dim, box_range, n_bins, shift, frame_range, water_o, i, areas,
             bins, new_bins>>

LoopUnchanged == UNCHANGED <<routine, names, unitcell, area,
                             surface_normal_dim, pore_center, max_distance,
                             bin_width, symmetrize, prev, MolVars>>

\* lines 38-44: the distances, the empty lists and the evaluation of np.arange
DensityBegin ==
    /\ routine = "compute_density" /\ pc = "start"
    /\ distances' = Distances(xyz, surface_normal_dim, pore_center, symmetrize)
    /\ bin_centers' = <<>>
    /\ density' = <<>>
    /\ k' = 0
    /\ masks' = <<>>
    /\ IF bin_width = 0
         THEN pc' = "raised" /\ arange' = <<>>
         ELSE /\ pc' = "loop"
              /\ arange' = np_arange(0 - max_distance, max_distance, bin_width)
    /\ UNCHANGED <<xyz, cos_angles, s_values, cos_angle_values, ret>>
    /\ LoopUnchanged

\* lines 44-56: one iteration of the bin loop
DensityBin ==
    /\ routine = "compute_density" /\ pc = "loop" /\ k < Len(arange)
    /\ LET bin_center == arange[k + 1]
           m == Mask(distances, bin_center, bin_width)
       IN  /\ masks' = Append(masks, m)
           /\ bin_centers' = Append(bin_centers, bin_center)
           /\ density' = Append(density,
                  BinDensity(Cardinality(m), area, bin_center, bin_width,
                             symmetrize, n_frames))
    /\ k' = k + 1
    /\ UNCHANGED <<xyz, pc, distances, cos_angles, arange, s_values,
                   cos_angle_values, ret>>
    /\ LoopUnchanged

\* line 58
DensityReturn ==
    /\ routine = "compute_density" /\ pc = "loop" /\ k = Len(arange)
    /\ pc' = "returned"
    /\ ret' = <<bin_centers, density>>
    /\ UNCHANGED <<xyz, distances, cos_angles, arange, k, masks, bin_centers,
                   density, s_values, cos_angle_values>>
    /\ LoopUnchanged

\* the caller computes the profile of the same trajectory again with the
\* other value of symmetrize (compute_density leaves traj untouched)
DensityAgain ==
    /\ routine = "compute_density" /\ pc = "returned" /\ prev = <<>>
    /\ prev' = ret
    /\ symmetrize' = ~symmetrize
    /\ pc' = "start"
    /\ ret' = <<>>
    /\ UNCHANGED <<routine, xyz, names, unitcell, area, surface_normal_dim,
                   pore_center, max_distance, bin_width, distances,
                   cos_angles, arange, k, masks, bin_centers, density,
                   s_values, cos_angle_values, MolVars>>

(***************************************************************************)
(* Water geometry shared by compute_s and compute_angle (lines 100-111,    *)
(* 262-277).                                                               *)
(***************************************************************************)
\* traj.top.select("water and name O") / ("water and name H"): the atom
\* numbers, ascending, of the atoms with that name (every residue is water)
RECURSIVE Select(_, _, _)
Select(atom_names, name, from) ==
    IF from > Len(atom_names) THEN <<>>
    ELSE IF atom_names[from] = name
         THEN <<from>> \o Select(atom_names, name, from + 1)
         ELSE Select(atom_names, name, from + 1)

\* traj.atom_slice(atoms).xyz
AtomSlice(coords, atoms) ==
    [f \in DOMAIN coords |-> [a \in DOMAIN atoms |-> coords[f][atoms[a]]]]

\* round(x / len) for len > 0 (no x of the model is an odd multiple of len/2)
RoundDiv(x, len) == (2 * x + len) \div (2 * len)

\* the bonded partner of an atom in its molecule: the oxygen that precedes a
\* hydrogen in the O, H, H order of the topology
RECURSIVE Anchor(_, _)
Anchor(atom_names, a) ==
    IF a = 1 \/ atom_names[a] = "O" THEN a ELSE Anchor(atom_names, a - 1)

\* traj.make_molecules_whole(inplace=True): every atom is moved to the
\* periodic image nearest to the atom it is bonded to
NearestImage(x, anchor, len) == x - len * RoundDiv(x - anchor, len)

make_molecules_whole(coords, atom_names, len) ==
    [f \in DOMAIN coords |->
        [a \in DOMAIN coords[f] |->
            <<NearestImage(coords[f][a][1],
                           coords[f][Anchor(atom_names, a)][1], len),
              NearestImage(coords[f][a][2],
                           coords[f][Anchor(atom_names, a)][2], len),
              NearestImage(coords[f][a][3],
                           coords[f][Anchor(atom_names, a)][3], len)>>]]

\* traj_ow.xyz[f][m]: the m-th selected oxygen
OxygenXyz(coords, atom_names, f, m) ==
    coords[f][Select(atom_names, "O", 1)[m]]

\* traj_ow.n_atoms
NOxygens(atom_names) == Len(Select(atom_names, "O", 1))

\* 2 * traj_hw.xyz.reshape(n_frames, -1, 2, 3).mean(axis=2)[f][m]: the sum of
\* the selected hydrogens 2m-1 and 2m, which is twice their midpoint
HwMidpoint2(coords, atom_names, f, m) ==
    LET h1 == coords[f][Select(atom_names, "H", 1)[2 * m - 1]]
        h2 == coords[f][Select(atom_names, "H", 1)[2 * m]]
    IN  <<h1[1] + h2[1], h1[2] + h2[2], h1[3] + h2[3]>>

\* 2 * (traj_ow.xyz - hw_midpoints)[f][m]
Vector2(coords, atom_names, f, m) ==
    LET o == OxygenXyz(coords, atom_names, f, m)
        mid2 == HwMidpoint2(coords, atom_names, f, m)
    IN  <<2 * o[1] - mid2[1], 2 * o[2] - mid2[2], 2 * o[3] - mid2[3]>>

\* the integer square root of a perfect square
ISqrt(n) == CHOOSE r \in 0..n : r * r = n

\* np.linalg.norm(v): the poses of the model have integer norms
Norm(v) == ISqrt(v[1] * v[1] + v[2] * v[2] + v[3] * v[3])

\* (vectors / norm)[f][m][surface_normal_dim]; a zero vector gives 0/0 = NaN
CosAngle(coords, atom_names, axis, f, m) ==
    LET v == Vector2(coords, atom_names, f, m) IN Frac(v[axis], Norm(v))

\* the same side for every molecule
SideOfPoreSame(coords, atom_names, axis, center, f, m) == 1

\* np.sign(-traj_ow.xyz[:, :, surface_normal_dim] + pore_center)[f][m]
SideOfPore(coords, atom_names, axis, center, f, m) ==
    Sign(0 - OxygenXyz(coords, atom_names, f, m)[axis] + center)

\* lines 108-111: cos_angles of compute_s
CosAngles(coords, atom_names, axis) ==
    [f \in DOMAIN coords |->
        [m \in 1..NOxygens(atom_names) |->
            CosAngle(coords, atom_names, axis, f, m)]]

\* lines 270-277: cos_angles of compute_angle, np.multiply(cos_angles,
\* side_of_pore)
SignedCosAngles(coords, atom_names, axis, center) ==
    [f \in DOMAIN coords |->
        [m \in 1..NOxygens(atom_names) |->
            LET cosv == CosAngle(coords, atom_names, axis, f, m)
            IN  Frac(cosv.n * SideOfPore(coords, atom_names, axis, center, f, m),
                     cosv.d)]]

\* traj_ow.xyz[:, :, surface_normal_dim] - pore_center, or its absolute value
OxygenDistances(coords, atom_names, axis, center, sym) ==
    [f \in DOMAIN coords |->
        [m \in 1..NOxygens(atom_names) |->
            IF sym
              THEN Abs(OxygenXyz(coords, atom_names, f, m)[axis] - center)
              ELSE OxygenXyz(coords, atom_names, f, m)[axis] - center]]

\* the samples of a mask in array order
RECURSIVE MaskSeq(_, _, _, _)
MaskSeq(m, vals, f, p) ==
    IF f > Len(vals) THEN <<>>
    ELSE IF p > Len(vals[f]) THEN MaskSeq(m, vals, f + 1, 1)
    ELSE IF <<f, p>> \in m THEN <<vals[f][p]>> \o MaskSeq(m, vals, f, p + 1)
    ELSE MaskSeq(m, vals, f, p + 1)

RECURSIVE FracSum(_)
FracSum(q) == IF q = <<>> THEN Frac(0, 1) ELSE FracAdd(q[1], FracSum(Tail(q)))

\* np.mean(q): the sum over the count; the mean of no sample is 0/0 = NaN
Mean(q) == LET t == FracSum(q) IN Reduce(t.n, t.d * Len(q))

Squares(q) == [j \in DOMAIN q |-> FracMul(q[j], q[j])]

\* s from the mean cosine, not squared
SValueUnsquared(q) ==
    LET mean == Mean(q) IN Reduce(3 * mean.n - mean.d, 2 * mean.d)

\* (3.0 * np.mean(cos_angles[mask] ** 2) - 1.0) / 2.0
SValue(q) ==
    LET mean == Mean(Squares(q)) IN Reduce(3 * mean.n - mean.d, 2 * mean.d)

(***************************************************************************)
(* compute_s                                                               *)
(***************************************************************************)
\* lines 100-120: whole molecules, the cosines, the distances, the empty
\* lists and np.arange.  reshape(0, -1, 2, 3) of an empty array raises.
SBegin ==
    /\ routine = "compute_s" /\ pc = "start"
    /\ xyz' = make_molecules_whole(xyz, names, unitcell)
    /\ k' = 0 /\ masks' = <<>>
    /\ bin_centers' = <<>> /\ s_values' = <<>>
    /\ IF n_frames = 0
         THEN /\ pc' = "raised"
              /\ UNCHANGED <<cos_angles, distances, arange>>
         ELSE /\ cos_angles' = CosAngles(xyz', names, surface_normal_dim)
              /\ distances' = OxygenDistances(xyz', names, surface_normal_dim,
                                              pore_center, symmetrize)
              /\ IF bin_width = 0
                   THEN pc' = "raised" /\ arange' = <<>>
                   ELSE /\ pc' = "loop"
                        /\ arange' = np_arange(0 - max_distance, max_distance,
                                               bin_width)
    /\ UNCHANGED <<density, cos_angle_values, ret>>
    /\ LoopUnchanged

\* lines 120-127: one iteration of the bin loop
SBin ==
    /\ routine = "compute_s" /\ pc = "loop" /\ k < Len(arange)
    /\ LET bin_center == arange[k + 1]
           m == Mask(distances, bin_center, bin_width)
       IN  /\ masks' = Append(masks, m)
           /\ bin_centers' = Append(bin_centers, bin_center)
           /\ s_values' = Append(s_values, SValue(MaskSeq(m, cos_angles, 1, 1)))
    /\ k' = k + 1
    /\ UNCHANGED <<xyz, pc, distances, cos_angles, arange, density,
                   cos_angle_values, ret>>
    /\ LoopUnchanged

\* line 129
SReturn ==
    /\ routine = "compute_s" /\ pc = "loop" /\ k = Len(arange)
    /\ pc' = "returned"
    /\ ret' = <<bin_centers, s_values>>
    /\ UNCHANGED <<xyz, distances, cos_angles, arange, k, masks, bin_centers,
                   density, s_values, cos_angle_values>>
    /\ LoopUnchanged

(***************************************************************************)
(* compute_angle                                                           *)
(***************************************************************************)
\* lines 262-285
AngleBegin ==
    /\ routine = "compute_angle" /\ pc = "start"
    /\ xyz' = make_molecules_whole(xyz, names, unitcell)
    /\ k' = 0 /\ masks' = <<>>
    /\ bin_centers' = <<>> /\ cos_angle_values' = <<>>
    /\ IF n_frames = 0
         THEN /\ pc' = "raised"
              /\ UNCHANGED <<cos_angles, distances, arange>>
         ELSE /\ cos_angles' = SignedCosAngles(xyz', names,
                                             surface_normal_dim, pore_center)
              /\ distances' = OxygenDistances(xyz', names, surface_normal_dim,
                                              pore_center, symmetrize)
              /\ IF bin_width = 0
                   THEN pc' = "raised" /\ arange' = <<>>
                   ELSE /\ pc' = "loop"
                        /\ arange' = np_arange(0 - max_distance, max_distance,
                                               bin_width)
    /\ UNCHANGED <<density, s_values, ret>>
    /\ LoopUnchanged

\* lines 285-292: one iteration of the bin loop
AngleBin ==
    /\ routine = "compute_angle" /\ pc = "loop" /\ k < Len(arange)
    /\ LET bin_center == arange[k + 1]
           m == Mask(distances, bin_center, bin_width)
       IN  /\ masks' = Append(masks, m)
           /\ bin_centers' = Append(bin_centers, bin_center)
           /\ cos_angle_values' =
                  Append(cos_angle_values, Mean(MaskSeq(m, cos_angles, 1, 1)))
    /\ k' = k + 1
    /\ UNCHANGED <<xyz, pc, distances, cos_angles, arange, density, s_values,
                   ret>>
    /\ LoopUnchanged

\* line 294
AngleReturn ==
    /\ routine = "compute_angle" /\ pc = "loop" /\ k = Len(arange)
    /\ pc' = "returned"
    /\ ret' = <<bin_centers, cos_angle_values, cos_angles>>
    /\ UNCHANGED <<xyz, distances, cos_angles, arange, k, masks, bin_centers,
                   density, s_values, cos_angle_values>>
    /\ LoopUnchanged

(***************************************************************************)
(* compute_mol_per_area                                                    *)
(***************************************************************************)
\* the truth value of frame_range: None and an empty range() are false
Truthy(fr) == ~fr.none /\ fr.frames # <<>>

\* every frame, whatever frame_range says
FrameSliceAll(coords, fr) == coords

\* water_o[frame_range]
FrameSlice(coords, fr) == [j \in DOMAIN fr.frames |-> coords[fr.frames[j]]]

\* frame.xyz[0, indices, dim].flatten(): one oxygen per residue
FrameValues(frame, axis) == [m \in DOMAIN frame |-> frame[m][axis]]

\* np.histogram(...)[1] = np.linspace(lo, hi, n + 1): edge j of 0..n
Edges(n, lo, hi) == [j \in 1..(n + 1) |-> Frac(lo * n + (j - 1) * (hi - lo), n)]

\* the bin of x: [edge j-1, edge j), the last bin closed at hi; 0 = outside
BinOf(x, n, lo, hi) ==
    IF x < lo \/ x > hi THEN 0
    ELSE IF x = hi THEN n
    ELSE ((x - lo) * n) \div (hi - lo) + 1

\* np.histogram(values, bins=n, range=(lo, hi))[0] for lo < hi
Histogram(values, n, lo, hi) ==
    [b \in 1..n |->
        Cardinality({m \in DOMAIN values : BinOf(values[m], n, lo, hi) = b})]

\* lines 205-210: the midpoints of adjacent edges
NewBins(edges) ==
    [j \in 1..(Len(edges) - 1) |->
        Frac(edges[j].n * edges[j + 1].d + edges[j + 1].n * edges[j].d,
             2 * edges[j].d * edges[j + 1].d)]

\* lines 213-217: middle = float(n_bins / 2); middle % 2 != 0 selects
\* int(middle - 0.5), else int(middle).  With middle = n/2, middle % 2 = 0
\* exactly when 4 divides n, and int(middle - 0.5) = (n - 1) div 2 for n >= 1.
\* The result is the 0-based index into new_bins.
ShiftIndex(n) == IF n % 4 # 0 THEN (n - 1) \div 2 ELSE n \div 2

\* line 218
Shifted(nb, shift_value) ==
    [j \in DOMAIN nb |-> FracAdd(nb[j], FracNeg(shift_value))]

MolUnchanged == UNCHANGED <<routine, xyz, names, unitcell, area,
                            surface_normal_dim, pore_center, max_distance,
                            bin_width, symmetrize, distances, cos_angles,
                            arange, k, masks, bin_centers, density, s_values,
                            cos_angle_values, prev, dim, box_range, n_bins,
                            shift, frame_range>>

\* lines 161-165: the oxygens, restricted to frame_range when it is true
MolBegin ==
    /\ routine = "compute_mol_per_area" /\ pc = "start"
    /\ LET ow == AtomSlice(xyz, Select(names, "O", 1))
       IN  water_o' = IF Truthy(frame_range) THEN FrameSlice(ow, frame_range)
                                              ELSE ow
    /\ i' = 0
    /\ pc' = "frames"
    /\ UNCHANGED <<areas, bins, new_bins, ret>>
    /\ MolUnchanged

\* lines 166-201: one frame; np.histogram raises unless n_bins >= 1
MolFrame ==
    /\ routine = "compute_mol_per_area" /\ pc = "frames" /\ i < Len(water_o)
    /\ IF n_bins < 1
         THEN pc' = "raised" /\ UNCHANGED <<areas, bins>>
         ELSE LET x == Histogram(FrameValues(water_o[i + 1], dim), n_bins,
                                 box_range[1], box_range[2])
              IN  /\ pc' = "frames"
                  /\ IF i = 0
                       THEN /\ areas' = x
                            /\ bins' = Edges(n_bins, box_range[1], box_range[2])
                       ELSE /\ areas' = [b \in DOMAIN areas |-> areas[b] + x[b]]
                            /\ UNCHANGED bins
    /\ i' = i + 1
    /\ UNCHANGED <<water_o, new_bins, ret>>
    /\ MolUnchanged

\* lines 203-220: the average, the bin centers, the shift and the return;
\* with no frame consumed, "areas" is an unbound local and line 203 raises
MolFinish ==
    /\ routine = "compute_mol_per_area" /\ pc = "frames" /\ i = Len(water_o)
    /\ IF areas = <<>>
         THEN pc' = "raised" /\ UNCHANGED <<areas, new_bins, ret>>
         ELSE /\ areas' = [b \in DOMAIN areas |-> Frac(areas[b], Len(water_o))]
              /\ new_bins' =
                     IF shift
                       THEN Shifted(NewBins(bins),
                                    NewBins(bins)[ShiftIndex(n_bins) + 1])
                       ELSE NewBins(bins)
              /\ ret' = <<areas', new_bins'>>
              /\ pc' = "returned"
    /\ UNCHANGED <<water_o, i, bins>>
    /\ MolUnchanged

(***************************************************************************)
(* Trajectories.                                                           *)
(***************************************************************************)
\* the shapes (n_frames, n_particles) with at most MaxSamples samples
Shapes == {s \in (0..MaxSamples) \X (0..MaxSamples) : s[1] * s[2] <= MaxSamples}

\* particles of compute_density: any atoms, placed along the normal
Points == {<<0 - z, 0, z>> : z \in Coords}

PointTrajs == UNION {[1..s[1] -> [1..s[2] -> Points]] : s \in Shapes}

InitCommon ==
    /\ pc = "start"
    /\ distances = <<>> /\ cos_angles = <<>> /\ arange = <<>>
    /\ k = 0 /\ masks = <<>>
    /\ bin_centers = <<>> /\ density = <<>> /\ s_values = <<>>
    /\ cos_angle_values = <<>>
    /\ prev = <<>> /\ ret = <<>>

\* the arguments and locals of compute_mol_per_area while another routine runs
InitNoMol ==
    /\ dim = 3 /\ box_range = <<0, 1>> /\ n_bins = 1 /\ shift = FALSE
    /\ frame_range = [none |-> TRUE, frames |-> <<>>]
    /\ water_o = <<>> /\ i = 0
    /\ areas = <<>> /\ bins = <<>> /\ new_bins = <<>>

InitDensity ==
    /\ routine = "compute_density"
    /\ xyz \in PointTrajs
    /\ names = <<>>
    /\ unitcell = 0
    /\ area \in Areas
    /\ surface_normal_dim = 3
    /\ pore_center \in PoreCenters
    /\ max_distance \in MaxDistances
    /\ bin_width \in BinWidths
    /\ symmetrize \in BOOLEAN
    /\ InitCommon
    /\ InitNoMol

NextDensity == DensityBegin \/ DensityBin \/ DensityReturn \/ DensityAgain

SpecDensity == InitDensity /\ [][NextDensity]_vars

\* a water molecule: the oxygen on the normal through <<-z, 0, z>> and the two
\* hydrogens at the offsets of one of four orientations
Offsets ==
    {<< <<1, 0, 0 - 1>>, <<0 - 1, 0, 0 - 1>> >>,        \* bisector along +z
     << <<0 - 3, 1, 4>>, <<0 - 3, 0 - 1, 4>> >>,        \* cos = -4/5
     << <<0 - 1, 1, 0>>, <<0 - 1, 0 - 1, 0>> >>,        \* bisector along +x
     << <<1, 0, 0>>, <<0 - 1, 0, 0>> >>}                \* no bisector (NaN)

OxygenCoords == {0 - 1, 0, 1}

WaterMaxDistances == {2}

WaterBinWidths == {0, 1, 2, 3}

Plus(a, b) == <<a[1] + b[1], a[2] + b[2], a[3] + b[3]>>

\* the hydrogens of a molecule as the file stores them: wrapped into the
\* periodic box [-len/2, len/2) along every axis
Wrap(a, len) ==
    <<a[1] - len * ((2 * a[1] + len) \div (2 * len)),
      a[2] - len * ((2 * a[2] + len) \div (2 * len)),
      a[3] - len * ((2 * a[3] + len) \div (2 * len))>>

Pose(z, off, len) ==
    LET o == <<0 - z, 0, z>>
    IN  <<o, Wrap(Plus(o, off[1]), len), Wrap(Plus(o, off[2]), len)>>

Poses(len) == {Pose(z, off, len) : z \in OxygenCoords, off \in Offsets}

RECURSIVE Flatten(_)
Flatten(q) == IF q = <<>> THEN <<>> ELSE q[1] \o Flatten(Tail(q))

\* the trajectories of n molecules over f frames, atoms in O, H, H order
WaterTrajs(len) ==
    UNION {{[f \in 1..s[1] |-> Flatten(t[f])] :
                t \in [1..s[1] -> [1..s[2] -> Poses(len)]]} : s \in Shapes}

RECURSIVE WaterNames(_)
WaterNames(n) == IF n = 0 THEN <<>> ELSE <<"O", "H", "H">> \o WaterNames(n - 1)

InitWater ==
    /\ unitcell = 10
    /\ xyz \in WaterTrajs(unitcell)
    /\ \E n \in 0..MaxSamples :
          /\ names = WaterNames(n)
          /\ \/ xyz # <<>> /\ Len(xyz[1]) = 3 * n
             \/ xyz = <<>>
    /\ area = 2
    /\ surface_normal_dim = 3
    /\ pore_center \in PoreCenters
    /\ max_distance \in WaterMaxDistances
    /\ bin_width \in WaterBinWidths
    /\ symmetrize \in BOOLEAN
    /\ InitCommon
    /\ InitNoMol

InitS == routine = "compute_s" /\ InitWater

NextS == SBegin \/ SBin \/ SReturn

SpecS == InitS /\ [][NextS]_vars

InitAngle == routine = "compute_angle" /\ InitWater

NextAngle == AngleBegin \/ AngleBin \/ AngleReturn

SpecAngle == InitAngle /\ [][NextAngle]_vars

MaxBins == 4        \* n_bins <= MaxBins

BoxRanges == {<<0 - 2, 2>>, <<0 - 1, 2>>, <<0, 1>>}

\* range(a, b) over the frames of the trajectory, as frame numbers from 1
Ranges(nf) ==
    {[none |-> FALSE, frames |-> [j \in 1..(b - a) |-> a + j]] :
        a \in 0..nf, b \in 0..nf}

\* the molecules of compute_mol_per_area: the first orientation only
MolTrajs(len) ==
    LET upright == CHOOSE off \in Offsets : off[1] = <<1, 0, 0 - 1>>
    IN  UNION {{[f \in 1..s[1] |-> Flatten(t[f])] :
                   t \in [1..s[1] -> [1..s[2] ->
                             {Pose(z, upright, len) : z \in Coords}]]} :
               s \in Shapes}

InitMol ==
    /\ routine = "compute_mol_per_area"
    /\ unitcell = 10
    /\ xyz \in MolTrajs(unitcell)
    /\ \E n \in 0..MaxSamples :
          /\ names = WaterNames(n)
          /\ \/ xyz # <<>> /\ Len(xyz[1]) = 3 * n
             \/ xyz = <<>>
    /\ area = 2
    /\ dim \in {1, 3}
    /\ box_range \in BoxRanges
    /\ n_bins \in 0..MaxBins
    /\ shift \in BOOLEAN
    /\ frame_range \in {[none |-> TRUE, frames |-> <<>>]} \cup Ranges(Len(xyz))
    /\ surface_normal_dim = 3 /\ pore_center = 0 /\ max_distance = 1
    /\ bin_width = 1 /\ symmetrize = FALSE
    /\ water_o = <<>> /\ i = 0
    /\ areas = <<>> /\ bins = <<>> /\ new_bins = <<>>
    /\ InitCommon

NextMol == MolBegin \/ MolFrame \/ MolFinish

SpecMol == InitMol /\ [][NextMol]_vars

(***************************************************************************)
(* The program: any of the four routines is called once (compute_density   *)
(* possibly a second time on the same trajectory).                         *)
(***************************************************************************)
Init == InitDensity \/ InitS \/ InitAngle \/ InitMol

Next == NextDensity \/ NextS \/ NextAngle \/ NextMol

Spec == Init /\ [][Next]_vars

\* the three routines built on the bin loop; a call, once started, runs on
InitBinLoop == InitDensity \/ InitS \/ InitAngle

NextBinLoop ==
    DensityBegin \/ DensityBin \/ DensityReturn \/ NextS \/ NextAngle

SpecBinLoop == InitBinLoop /\ [][NextBinLoop]_vars /\ WF_vars(NextBinLoop)

(***************************************************************************)
(* Vocabulary of the properties.                                           *)
(***************************************************************************)
\* particles per frame: atoms for compute_density, molecules otherwise
NParticles(f) ==
    IF routine = "compute_density" THEN Len(xyz[f]) ELSE Len(xyz[f]) \div 3

\* the (frame, particle) samples of the trajectory
Samples == {fp \in (1..Len(xyz)) \X (1..MaxSamples) : fp[2] <= NParticles(fp[1])}

\* the coordinate of a sample along the surface normal: the atom's, or the
\* oxygen's of the molecule
Coordinate(fp) ==
    IF routine = "compute_density"
      THEN xyz[fp[1]][fp[2]][surface_normal_dim]
      ELSE xyz[fp[1]][3 * fp[2] - 2][surface_normal_dim]

SignedDistance(fp) == Coordinate(fp) - pore_center

\* the distance the routine bins: folded when symmetrize is set
BinnedDistance(fp) ==
    IF symmetrize THEN Abs(SignedDistance(fp)) ELSE SignedDistance(fp)

\* d lies strictly inside the window of half a bin width around c
InWindow(d, c) == 2 * c - bin_width < 2 * d /\ 2 * d < 2 * c + bin_width

\* the samples of the bin centered at c
InBin(c) == {fp \in Samples : InWindow(BinnedDistance(fp), c)}

\* the centers -max_distance + j * bin_width (j >= 0) below max_distance,
\* for bin_width > 0
Centers ==
    {c \in (0 - max_distance)..(max_distance - 1) :
        (c + max_distance) % bin_width = 0}

IndexOf(q, c) == CHOOSE j \in 1..Len(q) : q[j] = c

WellFormed == area > 0 /\ bin_width > 0 /\ n_frames > 0

DensityReturned == routine = "compute_density" /\ pc = "returned"

\* the sum over all bins of density * area * bin_width * n_frames
CountedTotal ==
    FracSum([j \in 1..Len(ret[2]) |->
                FracMul(ret[2][j], Frac(area * bin_width * n_frames, 1))])

(***************************************************************************)
(* C1                                                                      *)
(***************************************************************************)
\* C1 as stated: with symmetrize=False and area, bin_width, n_frames > 0,
\* the sum of density * area * bin_width * n_frames over the bins equals the
\* number of samples with distance in [-max_distance, max_distance).
C1_SumEqualsSamplesInRange ==
    (DensityReturned /\ ~symmetrize /\ WellFormed) =>
        FracEq(CountedTotal,
               Frac(Cardinality({fp \in Samples :
                       /\ 0 - max_distance <= SignedDistance(fp)
                       /\ SignedDistance(fp) < max_distance}), 1))

\* C1 amended: with symmetrize=False and area, bin_width, n_frames > 0, the
\* sum of density * area * bin_width * n_frames over the bins equals the
\* number of samples whose distance lies strictly within half a bin width
\* of some bin center.
C1_SumEqualsSamplesInWindows ==
    (DensityReturned /\ ~symmetrize /\ WellFormed) =>
        FracEq(CountedTotal,
               Frac(Cardinality({fp \in Samples :
                       \E c \in Centers : InWindow(SignedDistance(fp), c)}), 1))

\* a profile that counted one sample and left another sample of the range
\* [-max_distance, max_distance) uncounted
C1_Witness ==
    /\ DensityReturned /\ ~symmetrize /\ WellFormed
    /\ \E fp \in Samples : \E c \in Centers : InWindow(SignedDistance(fp), c)
    /\ \E fp \in Samples :
          /\ 0 - max_distance <= SignedDistance(fp)
          /\ SignedDistance(fp) < max_distance
          /\ \A c \in Centers : ~InWindow(SignedDistance(fp), c)

(***************************************************************************)
(* C2                                                                      *)
(***************************************************************************)
\* C2: with symmetrize=True every bin's density is its sample count over
\* area * f * bin_width * n_frames, f = 1 for the bin centered at 0 and
\* f = 2 for every other bin, negative centers included; with
\* symmetrize=False the divisor is area * bin_width * n_frames.
C2_SymmetrizeFactor ==
    DensityReturned =>
        /\ Len(ret[2]) = Len(ret[1])
        /\ \A j \in 1..Len(ret[1]) :
              LET c == ret[1][j]
                  count == Cardinality(InBin(c))
              IN  IF symmetrize
                    THEN IF c = 0
                           THEN ret[2][j] =
                                  Frac(count, area * 1 * bin_width * n_frames)
                           ELSE ret[2][j] =
                                  Frac(count, area * 2 * bin_width * n_frames)
                    ELSE ret[2][j] = Frac(count, area * bin_width * n_frames)

\* a symmetrized profile with samples in the bin at 0, samples in a bin at
\* c > 0 and a bin at a negative center
C2_Witness ==
    /\ DensityReturned /\ symmetrize /\ WellFormed
    /\ \E j \in 1..Len(ret[1]) : ret[1][j] = 0 /\ ret[2][j].n > 0
    /\ \E j \in 1..Len(ret[1]) : ret[1][j] > 0 /\ ret[2][j].n > 0
    /\ \E j \in 1..Len(ret[1]) : ret[1][j] < 0

(***************************************************************************)
(* C10                                                                     *)
(***************************************************************************)
\* both profiles of one trajectory are at hand, 0 is a bin center
BothProfiles ==
    /\ DensityReturned /\ prev # <<>>
    /\ max_distance > 0 /\ bin_width > 0 /\ max_distance % bin_width = 0

SymProfile == IF symmetrize THEN ret ELSE prev

PlainProfile == IF symmetrize THEN prev ELSE ret

\* the relation of C10 between the two profiles
FoldedAverage ==
    /\ SymProfile[1] = PlainProfile[1]
    /\ \A j \in 1..Len(SymProfile[1]) :
          LET c == SymProfile[1][j]
          IN  IF c > 0
                THEN FracEq(SymProfile[2][j],
                            FracMul(Frac(1, 2),
                                    FracAdd(PlainProfile[2][j],
                                            PlainProfile[2][IndexOf(PlainProfile[1], 0 - c)])))
                ELSE IF c = 0
                  THEN FracEq(SymProfile[2][j], PlainProfile[2][j])
                  ELSE FracEq(SymProfile[2][j], Frac(0, 1))

\* C10 as stated: for max_distance a positive multiple of bin_width, the
\* symmetrized density of a bin at c > 0 is the average of the plain
\* densities at +c and -c, at c = 0 it is the plain density, at c < 0 it
\* is 0.
C10_FoldedAverageAlways == BothProfiles => FoldedAverage

\* C10 amended: the same, for a nonzero area and a trajectory of at least
\* one frame (with a zero divisor the densities are NaN or infinite, and
\* the bins at negative centers hold NaN, not 0).
C10_FoldedAverageFinite ==
    (BothProfiles /\ area # 0 /\ n_frames > 0) => FoldedAverage

\* both profiles at hand, and a bin at c > 0 whose plain densities at +c
\* and -c differ
C10_Witness ==
    /\ BothProfiles /\ area # 0 /\ n_frames > 0
    /\ \E j \in 1..Len(PlainProfile[1]) :
          /\ PlainProfile[1][j] > 0
          /\ PlainProfile[2][j].n #
                 PlainProfile[2][IndexOf(PlainProfile[1], 0 - PlainProfile[1][j])].n

(***************************************************************************)
(* C4                                                                      *)
(***************************************************************************)
LoopRoutine == routine \in {"compute_density", "compute_s", "compute_angle"}

\* the list of per-bin values the running routine builds
Values ==
    IF routine = "compute_density" THEN density
    ELSE IF routine = "compute_s" THEN s_values
    ELSE cos_angle_values

\* the statistic of the bin centered at c: the density, s, or the mean
\* cosine of the samples of that bin
Statistic(c) ==
    IF routine = "compute_density"
      THEN BinDensity(Cardinality(InBin(c)), area, c, bin_width, symmetrize,
                      n_frames)
    ELSE IF routine = "compute_s"
      THEN SValue(MaskSeq(InBin(c), cos_angles, 1, 1))
    ELSE Mean(MaskSeq(InBin(c), cos_angles, 1, 1))

\* the centers for max_distance = 1.0 and bin_width = 0.01, in hundredths
FineGrid == np_arange(0 - 100, 100, 1)

\* the lists of the loop: equal lengths, centers -max_distance + j*bin_width
\* below max_distance, values in the order of the centers; at the return,
\* one bin for every such center; 200 centers from -100 in steps of 1
\* below 100 (max_distance = 1.0 and bin_width = 0.01 in hundredths)
C4_Profile ==
    (LoopRoutine /\ bin_width > 0 /\ pc \in {"loop", "returned"}) =>
        /\ Len(bin_centers) = Len(Values)
        /\ Len(bin_centers) = k /\ k <= Len(arange)
        /\ \A j \in 1..Len(bin_centers) :
              /\ bin_centers[j] = 0 - max_distance + (j - 1) * bin_width
              /\ bin_centers[j] < max_distance
              /\ Values[j] = Statistic(bin_centers[j])
        /\ pc = "returned" =>
              /\ ret[1] = bin_centers /\ ret[2] = Values
              /\ {bin_centers[j] : j \in 1..Len(bin_centers)} = Centers
        /\ Len(FineGrid) = 200
        /\ FineGrid[1] = 0 - 100

\* a step taken inside the loop either runs one more iteration, and the
\* number Len(arange) - k of iterations left drops by one, or, with none
\* left, returns
C4_Step ==
    (LoopRoutine /\ bin_width > 0 /\ pc = "loop") =>
        \/ k < Len(arange) /\ pc' = "loop" /\ k' = k + 1
        \/ k = Len(arange) /\ pc' = "returned"

\* C4: for bin_width > 0 the bin loop of compute_density, compute_s and
\* compute_angle terminates and returns bin_centers and values of equal
\* length, bin_centers[k] = -max_distance + k*bin_width for exactly the
\* k >= 0 with bin_centers[k] < max_distance, values[k] the statistic of
\* that bin; the two lists have the same length at every step of the loop.
\* Termination: inside the loop k <= Len(arange), so that the guard of an
\* iteration (k < Len(arange)) or of the return (k = Len(arange)) holds, and
\* every step lowers the finite count of iterations left or returns.
C4_BinLoop == []C4_Profile /\ [][C4_Step]_vars

\* a returned profile of two bins whose last window does not end at
\* max_distance, with a sample in a bin
C4_Witness ==
    /\ LoopRoutine /\ pc = "returned" /\ bin_width = 3 /\ max_distance = 2
    /\ ret[1] = <<0 - 2, 1>>
    /\ \E fp \in Samples : fp \in InBin(1)

(***************************************************************************)
(* C5                                                                      *)
(***************************************************************************)
\* C5: a bin selects exactly the samples strictly inside
\* (center - bin_width/2, center + bin_width/2); a sample at distance
\* center + bin_width/2 is in neither that bin nor the next one; every
\* sample is selected by at most one bin of a profile.
C5_StrictWindows ==
    (LoopRoutine /\ pc \in {"loop", "returned"}) =>
        /\ Len(masks) = Len(bin_centers)
        /\ \A j \in 1..Len(masks) : masks[j] = InBin(bin_centers[j])
        /\ \A fp \in Samples : \A j \in 1..Len(masks) :
              2 * BinnedDistance(fp) = 2 * bin_centers[j] + bin_width =>
                  /\ fp \notin masks[j]
                  /\ j < Len(masks) => fp \notin masks[j + 1]
        /\ \A fp \in Samples :
              Cardinality({j \in 1..Len(masks) : fp \in masks[j]}) <= 1

\* a returned profile with a sample exactly on the boundary between two
\* adjacent bins, and a sample inside a bin
C5_Witness ==
    /\ LoopRoutine /\ pc = "returned" /\ bin_width > 0
    /\ \E fp \in Samples : \E j \in 1..(Len(masks) - 1) :
          2 * BinnedDistance(fp) = 2 * bin_centers[j] + bin_width
    /\ \E j \in 1..Len(masks) : masks[j] # {}

(***************************************************************************)
(* C6                                                                      *)
(***************************************************************************)
\* two molecules mirrored about pore_center with the same unsigned cosine,
\* each alone in its bin, the bins centered at c and -c
Mirrored(a, b, c) ==
    /\ a # b
    /\ SignedDistance(a) # 0
    /\ SignedDistance(a) = 0 - SignedDistance(b)
    /\ FracEq(CosAngle(xyz, names, surface_normal_dim, a[1], a[2]),
              CosAngle(xyz, names, surface_normal_dim, b[1], b[2]))
    /\ c \in Centers /\ (0 - c) \in Centers
    /\ InBin(c) = {a} /\ InBin(0 - c) = {b}

\* C6: in compute_angle with symmetrize=False, two molecules mirrored about
\* pore_center with the identical unsigned cosine, each alone in its bin,
\* give values of equal magnitude and opposite sign in the mirrored bins.
C6_MirroredOpposite ==
    (routine = "compute_angle" /\ pc = "returned" /\ ~symmetrize
        /\ bin_width > 0) =>
        \A a \in Samples : \A b \in Samples : \A c \in Centers :
            Mirrored(a, b, c) =>
                FracEq(ret[2][IndexOf(ret[1], c)],
                       FracNeg(ret[2][IndexOf(ret[1], 0 - c)]))

\* a mirrored pair whose bins hold nonzero values
C6_Witness ==
    /\ routine = "compute_angle" /\ pc = "returned" /\ ~symmetrize
    /\ bin_width > 0
    /\ \E a \in Samples : \E b \in Samples : \E c \in Centers :
          /\ Mirrored(a, b, c)
          /\ ret[2][IndexOf(ret[1], c)].n # 0
          /\ ret[2][IndexOf(ret[1], c)].d # 0

(***************************************************************************)
(* C9                                                                      *)
(***************************************************************************)
\* the sum of cos_angle^2 over a set of samples
RECURSIVE SumSquares(_)
SumSquares(T) ==
    IF T = {} THEN Frac(0, 1)
    ELSE LET fp == CHOOSE x \in T : TRUE
             cosv == cos_angles[fp[1]][fp[2]]
         IN  FracAdd(Reduce(cosv.n * cosv.n, cosv.d * cosv.d),
                     SumSquares(T \ {fp}))

\* -1 <= cos <= 1
UnitRange(cosv) == FracLeq(Frac(0 - 1, 1), cosv) /\ FracLeq(cosv, Frac(1, 1))

\* C9: for a bin with samples, s = (3 * mean(cos_angle^2) - 1) / 2 over
\* exactly the samples whose oxygen distance falls in the bin, within
\* [-0.5, 1.0] when every cos_angle is in [-1, 1]; for a bin without
\* samples the value is NaN and the bin keeps its position.
C9_OrderParameter ==
    (routine = "compute_s" /\ pc = "returned") =>
        /\ Len(ret[2]) = Len(ret[1])
        /\ \A j \in 1..Len(ret[1]) :
              LET T == InBin(ret[1][j])
                  n == Cardinality(T)
                  t == SumSquares(T)
              IN  IF T = {} THEN IsNaN(ret[2][j])
                  ELSE IF \A fp \in T : UnitRange(cos_angles[fp[1]][fp[2]])
                    THEN /\ FracEq(ret[2][j],
                                   Frac(3 * t.n - n * t.d, 2 * n * t.d))
                         /\ FracLeq(Frac(0 - 1, 2), ret[2][j])
                         /\ FracLeq(ret[2][j], Frac(1, 1))
                    ELSE IsNaN(ret[2][j])

\* a profile with two samples of different cosines in one bin, and an empty
\* bin
C9_Witness ==
    /\ routine = "compute_s" /\ pc = "returned"
    /\ \E j \in 1..Len(ret[1]) : InBin(ret[1][j]) = {}
    /\ \E j \in 1..Len(ret[1]) :
          \E a \in InBin(ret[1][j]) : \E b \in InBin(ret[1][j]) :
              /\ UnitRange(cos_angles[a[1]][a[2]])
              /\ UnitRange(cos_angles[b[1]][b[2]])
              /\ ~FracEq(cos_angles[a[1]][a[2]], cos_angles[b[1]][b[2]])

(***************************************************************************)
(* C7, C3                                                                  *)
(***************************************************************************)
MolReturned == routine = "compute_mol_per_area" /\ pc = "returned"

\* the frames the claim takes as analysed: all, or those of frame_range
Analysed ==
    IF frame_range.none THEN [f \in 1..Len(xyz) |-> f] ELSE frame_range.frames

NMolecules == Len(names) \div 3

\* molecule m of frame f lies inside box_range along dim
Inside(f, m) ==
    /\ box_range[1] <= xyz[f][3 * m - 2][dim]
    /\ xyz[f][3 * m - 2][dim] <= box_range[2]

\* the number of (analysed frame, molecule) pairs inside box_range
InsideCount ==
    Cardinality({fm \in (1..Len(Analysed)) \X (1..NMolecules) :
                    Inside(Analysed[fm[1]], fm[2])})

\* C7: with at least one analysed frame, the sum of the returned averaged
\* counts over the bins is the number of molecules inside box_range summed
\* over the analysed frames and divided by their number; it is n_molecules
\* when every molecule is inside in every frame.
C7_FrameAverage ==
    (MolReturned /\ Analysed # <<>>) =>
        /\ Len(ret[1]) = n_bins
        /\ FracEq(FracSum(ret[1]), Frac(InsideCount, Len(Analysed)))
        /\ (\A fm \in (1..Len(Analysed)) \X (1..NMolecules) :
                Inside(Analysed[fm[1]], fm[2]))
             => FracEq(FracSum(ret[1]), Frac(NMolecules, 1))

\* a proper frame_range of a longer trajectory, a molecule inside and a
\* molecule outside box_range
C7_Witness ==
    /\ MolReturned /\ ~frame_range.none
    /\ Len(Analysed) < Len(xyz)
    /\ \E fm \in (1..Len(xyz)) \X (1..NMolecules) : ~Inside(fm[1], fm[2])
    /\ InsideCount > 0

\* C3 as stated: with shift=True the value subtracted from every bin center
\* is the bin center at index n_bins // 2, for even and odd n_bins alike.
C3_ShiftByMiddleBin ==
    (MolReturned /\ shift) =>
        \A j \in 1..n_bins :
            FracEq(ret[2][j],
                   FracAdd(NewBins(bins)[j],
                           FracNeg(NewBins(bins)[n_bins \div 2 + 1])))

(***************************************************************************)
(* C8                                                                      *)
(***************************************************************************)
\* C8 as stated: no routine ends in an error; on zero or negative
\* bin_width or area, on an empty trajectory and on empty bins it returns
\* its normal result.
C8_NeverRaises == pc # "raised"

====
